---------------------------- MODULE Spec2Model ----------------------------
(***************************************************************************)
(* The cache manager of tmdb-proxy-go (src/main.go): a map from cache key  *)
(* to CacheEntry guarded by one sync.RWMutex, read by Get, written by Set  *)
(* (which first runs checkCacheSize) and swept by cleanExpiredCache, which *)
(* the goroutine startCleanup runs on every tick of a ticker.              *)
(*                                                                         *)
(* Time is counted in whole units of the clock; CACHE_DURATION and         *)
(* CLEANUP_INTERVAL keep the source's ratio (they are equal), and          *)
(* MAX_CACHE_SIZE is scaled from 1000 down to 2.                           *)
(***************************************************************************)
EXTENDS Integers, Sequences, FiniteSets, TLC

\* ---- program constants (src/main.go:13-18), scaled ----
CACHE_DURATION == 2
MAX_CACHE_SIZE == 2
CLEANUP_INTERVAL == 2

\* ---- bounds of the model ----
NumKeys == 3
NumData == 2
NumTasks == 2
MaxTime == 3
LiveKeys == 2

Keys == 1..NumKeys
Data == 1..NumData
Requests == 1..NumTasks
Sweeper == 0
Tasks == Requests \cup {Sweeper}
NoTask == -1
Nil == 0

VARIABLES
    cache,      \* cm.cache: a function from the keys present to CacheEntry
    mu,         \* cm.mu: [w: the task holding the writer side, readers: the read holders]
    now,        \* the wall clock read by time.Now()
    tickC,      \* ticker.C, a channel of capacity 1: TRUE when a tick is buffered
    pc,         \* where each task stands
    arg,        \* the key of the Get whose result a request task holds
    ret,        \* the value Get has computed for its caller
    lastSet,    \* history: per key, the (data, time) of the last Set that wrote it
    lastMut,    \* history: the key of the last Set, if no other write followed it
    reSet,      \* history: whether some key has been written by more than one Set
    sweepRan,   \* history: whether a sweep has run
    heap,       \* the backing array of each []byte: a function from slice to content
    probe,      \* the input and result of one run of checkCacheSize taken alone
    h           \* the handler's locals, per request task

vars == <<cache, mu, now, tickC, pc, arg, ret, lastSet, lastMut, reSet, sweepRan,
          heap, probe, h>>
hist == <<lastSet, lastMut, reSet, sweepRan>>
\* What the cache manager's own steps leave alone.
ext == <<heap, probe, h>>

NoRet == [data |-> Nil, found |-> FALSE]
NoSet == [data |-> Nil, at |-> -1]

\* ---- the map ----
Size(c) == Cardinality(DOMAIN c)
EmptyMap == [x \in {} |-> Nil]
Delete(c, k) == [x \in DOMAIN c \ {k} |-> c[x]]
\* Mutants of Put: the map replaced by one holding the new entry alone; an
\* existing entry kept instead of overwritten.
PutFresh(c, k, e) == [x \in {k} |-> e]
PutIfAbsent(c, k, e) == [x \in DOMAIN c \cup {k} |-> IF x \in DOMAIN c THEN c[x] ELSE e]
Put(c, k, e) == [x \in DOMAIN c \cup {k} |-> IF x = k THEN e ELSE c[x]]
CacheEntry(d, e) == [Data |-> d, Expiry |-> e]

\* time.Time.After
After(a, b) == a > b

\* The orders in which `for key, val := range cm.cache` may visit the map.
RangeOrders(c) ==
    {s \in [1..Size(c) -> DOMAIN c] : \A i, j \in 1..Size(c) : s[i] = s[j] => i = j}

\* ---- Get (lines 47-56) ----
Hit(d) == [data |-> d, found |-> TRUE]
Miss == [data |-> Nil, found |-> FALSE]
\* Mutant of GetResult: the expiry test left out.
GetResultNoExpiry(c, n, k) ==
    IF k \notin DOMAIN c THEN Miss ELSE Hit(c[k].Data)
GetResult(c, n, k) ==
    IF k \notin DOMAIN c THEN Miss
    ELSE IF After(n, c[k].Expiry) THEN Miss
    ELSE Hit(c[k].Data)

\* ---- checkCacheSize (lines 74-106) ----
CollectEntries(c, order) ==
    [i \in 1..Len(order) |-> [key |-> order[i], expiry |-> c[order[i]].Expiry]]

SwapEntries(s, i, j) == [s EXCEPT ![i] = s[j], ![j] = s[i]]

RECURSIVE SortInner(_, _, _)
SortInner(s, i, j) ==
    IF j > Len(s) THEN s
    ELSE SortInner(IF After(s[i].expiry, s[j].expiry) THEN SwapEntries(s, i, j) ELSE s,
                   i, j + 1)

RECURSIVE SortOuter(_, _)
SortOuter(s, i) ==
    IF i > Len(s) - 1 THEN s
    ELSE SortOuter(SortInner(s, i, i + 1), i + 1)

\* Mutant of SortEntries: the outer loop runs once.
SortEntriesOnePass(s) == IF Len(s) < 2 THEN s ELSE SortInner(s, 1, 2)
SortEntries(s) == SortOuter(s, 1)

RECURSIVE DeleteOldest(_, _, _, _)
DeleteOldest(c, entries, i, deleteCount) ==
    IF i > deleteCount THEN c
    ELSE DeleteOldest(Delete(c, entries[i].key), entries, i + 1, deleteCount)

\* Mutant of checkCacheSize: the size test lets one more entry in.
checkCacheSizeLate(c, order) ==
    IF Size(c) <= MAX_CACHE_SIZE + 1 THEN c
    ELSE LET entries == SortEntries(CollectEntries(c, order))
             deleteCount == Size(c) - MAX_CACHE_SIZE
         IN  DeleteOldest(c, entries, 1, deleteCount)

\* Mutant of checkCacheSize: the number to delete is one too many.
checkCacheSizeOneMore(c, order) ==
    IF Size(c) <= MAX_CACHE_SIZE THEN c
    ELSE LET entries == SortEntries(CollectEntries(c, order))
             deleteCount == Size(c) - MAX_CACHE_SIZE + 1
         IN  DeleteOldest(c, entries, 1, deleteCount)

checkCacheSize(c, order) ==
    IF Size(c) <= MAX_CACHE_SIZE THEN c
    ELSE LET entries == SortEntries(CollectEntries(c, order))
             deleteCount == Size(c) - MAX_CACHE_SIZE
         IN  DeleteOldest(c, entries, 1, deleteCount)

\* ---- Set's writes (lines 65-70) ----
SetResult(c, order, n, k, d) ==
    Put(checkCacheSize(c, order), k, CacheEntry(d, n + CACHE_DURATION))

\* ---- cleanExpiredCache's loop (lines 113-118) ----
RECURSIVE CleanLoop(_, _, _, _)
CleanLoop(c, order, i, n) ==
    IF i > Len(order) THEN c
    ELSE CleanLoop(IF After(n, c[order[i]].Expiry) THEN Delete(c, order[i]) ELSE c,
                   order, i + 1, n)

\* Mutant of cleanExpired: an entry expiring exactly now is deleted too.
RECURSIVE CleanLoopInclusive(_, _, _, _)
CleanLoopInclusive(c, order, i, n) ==
    IF i > Len(order) THEN c
    ELSE CleanLoopInclusive(IF n >= c[order[i]].Expiry THEN Delete(c, order[i]) ELSE c,
                            order, i + 1, n)
cleanExpiredInclusive(c, order, n) == CleanLoopInclusive(c, order, 1, n)
\* Mutant of cleanExpired: the sweep deletes nothing.
cleanExpiredNothing(c, order, n) == c
\* Mutant of cleanExpired: an expired entry is renewed instead of deleted.
cleanExpiredRenew(c, order, n) ==
    [k \in DOMAIN c |-> IF After(n, c[k].Expiry)
                        THEN CacheEntry(c[k].Data, n + CACHE_DURATION)
                        ELSE c[k]]
cleanExpired(c, order, n) == CleanLoop(c, order, 1, n)

\* ---- sync.RWMutex ----
NoWriter(m) == m.w = NoTask
NoReaders(m) == m.readers = {}

\* The keys of the run with the most keys: those history is kept for.
CapKeys == 4
AllKeys == Keys \cup (1..CapKeys)

NoProbe == [in |-> EmptyMap, order |-> <<>>, unsorted |-> <<>>, sorted |-> <<>>,
            out |-> EmptyMap]
\* The handler's locals before a request arrives.
NoReq == [method |-> "", uri |-> Nil, auth |-> FALSE, body |-> FALSE]
NoUp == [status |-> 0, body |-> Nil]
NoResp == [kind |-> "", status |-> 0, body |-> Nil]
NoRequest ==
    [pc |-> "h_idle", req |-> NoReq, saw |-> Miss, got |-> Miss, up |-> NoUp,
     contacted |-> FALSE, didSet |-> FALSE, resp |-> NoResp]

Init ==
    /\ cache = EmptyMap
    /\ mu = [w |-> NoTask, readers |-> {}]
    /\ now = 0
    /\ tickC = FALSE
    /\ pc = [t \in Tasks |-> "idle"]
    /\ arg = [t \in Requests |-> Nil]
    /\ ret = [t \in Requests |-> NoRet]
    /\ lastSet = [k \in AllKeys |-> NoSet]
    /\ lastMut = Nil
    /\ reSet = FALSE
    /\ sweepRan = FALSE
    /\ heap = [a \in Data |-> a]
    /\ probe = NoProbe
    /\ h = [t \in Requests |-> NoRequest]


\* ---- sync.RWMutex: Lock of the writer side by task t (labels: waiting for the
\* ---- mutex, waiting for the readers to leave, inside) ----
WriterIn(t, m) == [m EXCEPT !.w = t]
\* Mutant of AfterLock: the writer enters without waiting for the readers.
AfterLockNoDrain(m, drain, cs) == cs
AfterLock(m, drain, cs) == IF NoReaders(m) THEN cs ELSE drain

\* The tasks blocked in RLock behind a writer.
BlockedReaders == {t \in Requests : pc[t] = "g_blocked"}

\* Unlock of the writer side: every reader blocked behind the writer is let in.
WriterOut(m) == [w |-> NoTask, readers |-> BlockedReaders]
PcAfterUnlock(t) ==
    [x \in Tasks |-> IF x = t THEN "idle"
                     ELSE IF x \in BlockedReaders THEN "g_cs" ELSE pc[x]]

\* ---- Get (lines 43-57) ----
\* A request task calls Get: cm.mu.RLock().  The key is first read in the body,
\* and is drawn there.
GetRLock(t) ==
    /\ pc[t] = "idle"
    /\ IF NoWriter(mu)
       THEN /\ mu' = [mu EXCEPT !.readers = @ \cup {t}]
            /\ pc' = [pc EXCEPT ![t] = "g_cs"]
       ELSE /\ mu' = mu
            /\ pc' = [pc EXCEPT ![t] = "g_blocked"]
    /\ UNCHANGED <<cache, now, tickC, arg, ret, hist>>

\* Mutant of GetBody: a hit renews the entry's expiry (a sliding TTL).
GetBodySliding(t, k) ==
    /\ pc[t] = "g_cs"
    /\ arg' = [arg EXCEPT ![t] = k]
    /\ ret' = [ret EXCEPT ![t] = GetResult(cache, now, k)]
    /\ cache' = IF GetResult(cache, now, k).found
                THEN [cache EXCEPT ![k].Expiry = now + CACHE_DURATION]
                ELSE cache
    /\ pc' = [pc EXCEPT ![t] = "g_ret"]
    /\ UNCHANGED <<mu, now, tickC, hist>>

\* Mutant of GetBody: an entry found expired is deleted by the lookup.
GetBodyLazyDelete(t, k) ==
    /\ pc[t] = "g_cs"
    /\ arg' = [arg EXCEPT ![t] = k]
    /\ ret' = [ret EXCEPT ![t] = GetResult(cache, now, k)]
    /\ cache' = IF k \in DOMAIN cache /\ After(now, cache[k].Expiry)
                THEN Delete(cache, k)
                ELSE cache
    /\ pc' = [pc EXCEPT ![t] = "g_ret"]
    /\ UNCHANGED <<mu, now, tickC, hist>>

\* Get(k): the lookup and the expiry test, up to the return statement.
GetBody(t, k) ==
    /\ pc[t] = "g_cs"
    /\ arg' = [arg EXCEPT ![t] = k]
    /\ ret' = [ret EXCEPT ![t] = GetResult(cache, now, k)]
    /\ pc' = [pc EXCEPT ![t] = "g_ret"]
    /\ UNCHANGED <<cache, mu, now, tickC, hist>>

\* The deferred cm.mu.RUnlock(); the caller takes the result.
GetRUnlock(t) ==
    /\ pc[t] = "g_ret"
    /\ mu' = [mu EXCEPT !.readers = @ \ {t}]
    /\ pc' = [pc EXCEPT ![t] = "idle"]
    /\ arg' = [arg EXCEPT ![t] = Nil]
    /\ ret' = [ret EXCEPT ![t] = NoRet]
    /\ UNCHANGED <<cache, now, tickC, hist>>

\* ---- Set (lines 60-71) ----
\* A request task calls Set: cm.mu.Lock().  The key and the data are first read
\* in the body, and are drawn there.
SetLock(t) ==
    /\ pc[t] = "idle"
    /\ IF NoWriter(mu)
       THEN /\ mu' = WriterIn(t, mu)
            /\ pc' = [pc EXCEPT ![t] = AfterLock(mu, "s_drain", "s_cs")]
       ELSE /\ mu' = mu
            /\ pc' = [pc EXCEPT ![t] = "s_lock"]
    /\ UNCHANGED <<cache, now, tickC, arg, ret, hist>>

\* A Set waiting for the writer side gets it.
SetAcquire(t) ==
    /\ pc[t] = "s_lock"
    /\ NoWriter(mu)
    /\ mu' = WriterIn(t, mu)
    /\ pc' = [pc EXCEPT ![t] = AfterLock(mu, "s_drain", "s_cs")]
    /\ UNCHANGED <<cache, now, tickC, arg, ret, hist>>

\* The last reader has left: the Set enters.
SetDrained(t) ==
    /\ pc[t] = "s_drain"
    /\ mu.w = t
    /\ NoReaders(mu)
    /\ pc' = [pc EXCEPT ![t] = "s_cs"]
    /\ UNCHANGED <<cache, mu, now, tickC, arg, ret, hist>>

\* Mutant of SetBody: checkCacheSize takes cm.mu.Lock() itself, while Set holds it.
SetBodyRelock(t, k, d) ==
    /\ pc[t] = "s_cs"
    /\ NoWriter(mu)
    /\ \E order \in RangeOrders(cache) : cache' = SetResult(cache, order, now, k, d)
    /\ pc' = [pc EXCEPT ![t] = "s_ret"]
    /\ lastSet' = [lastSet EXCEPT ![k] = [data |-> d, at |-> now]]
    /\ lastMut' = k
    /\ reSet' = (reSet \/ lastSet[k] # NoSet)
    /\ UNCHANGED <<mu, now, tickC, arg, ret, sweepRan>>

\* Set(k, d): checkCacheSize, then the store of the new entry.
SetBody(t, k, d) ==
    /\ pc[t] = "s_cs"
    /\ \E order \in RangeOrders(cache) : cache' = SetResult(cache, order, now, k, d)
    /\ pc' = [pc EXCEPT ![t] = "s_ret"]
    /\ lastSet' = [lastSet EXCEPT ![k] = [data |-> d, at |-> now]]
    /\ lastMut' = k
    /\ reSet' = (reSet \/ lastSet[k] # NoSet)
    /\ UNCHANGED <<mu, now, tickC, arg, ret, sweepRan>>

\* The deferred cm.mu.Unlock(); Set returns.
SetUnlock(t) ==
    /\ pc[t] = "s_ret"
    /\ mu' = WriterOut(mu)
    /\ pc' = PcAfterUnlock(t)
    /\ UNCHANGED <<cache, now, tickC, arg, ret, hist>>

\* ---- startCleanup / cleanExpiredCache (lines 109-129) ----
\* `for range ticker.C` receives a tick; cleanExpiredCache calls cm.mu.Lock().
SweepLock ==
    /\ pc[Sweeper] = "idle"
    /\ tickC
    /\ tickC' = FALSE
    /\ IF NoWriter(mu)
       THEN /\ mu' = WriterIn(Sweeper, mu)
            /\ pc' = [pc EXCEPT ![Sweeper] = AfterLock(mu, "c_drain", "c_cs")]
       ELSE /\ mu' = mu
            /\ pc' = [pc EXCEPT ![Sweeper] = "c_lock"]
    /\ UNCHANGED <<cache, now, arg, ret, hist>>

SweepAcquire ==
    /\ pc[Sweeper] = "c_lock"
    /\ NoWriter(mu)
    /\ mu' = WriterIn(Sweeper, mu)
    /\ pc' = [pc EXCEPT ![Sweeper] = AfterLock(mu, "c_drain", "c_cs")]
    /\ UNCHANGED <<cache, now, tickC, arg, ret, hist>>

SweepDrained ==
    /\ pc[Sweeper] = "c_drain"
    /\ mu.w = Sweeper
    /\ NoReaders(mu)
    /\ pc' = [pc EXCEPT ![Sweeper] = "c_cs"]
    /\ UNCHANGED <<cache, mu, now, tickC, arg, ret, hist>>

\* now := time.Now() and the loop over the map.
SweepBody ==
    /\ pc[Sweeper] = "c_cs"
    /\ \E order \in RangeOrders(cache) : cache' = cleanExpired(cache, order, now)
    /\ pc' = [pc EXCEPT ![Sweeper] = "c_ret"]
    /\ sweepRan' = TRUE
    /\ lastMut' = Nil
    /\ UNCHANGED <<mu, now, tickC, arg, ret, lastSet, reSet>>

SweepUnlock ==
    /\ pc[Sweeper] = "c_ret"
    /\ mu' = WriterOut(mu)
    /\ pc' = PcAfterUnlock(Sweeper)
    /\ UNCHANGED <<cache, now, tickC, arg, ret, hist>>

\* ---- the clock and the ticker (line 123) ----
Tick ==
    /\ now < MaxTime
    /\ now' = now + 1
    /\ tickC' = IF (now + 1) % CLEANUP_INTERVAL = 0 THEN TRUE ELSE tickC
    /\ UNCHANGED <<cache, mu, pc, arg, ret, hist>>

\* One step of the system, the keys and payloads of the calls drawn from K and D.
NextOver(K, D) ==
    \/ \E t \in Requests : GetRLock(t) /\ UNCHANGED ext
    \/ \E t \in Requests, k \in K : GetBody(t, k) /\ UNCHANGED ext
    \/ \E t \in Requests : GetRUnlock(t) /\ UNCHANGED ext
    \/ \E t \in Requests : SetLock(t) /\ UNCHANGED ext
    \/ \E t \in Requests : SetAcquire(t) /\ UNCHANGED ext
    \/ \E t \in Requests : SetDrained(t) /\ UNCHANGED ext
    \/ \E t \in Requests, k \in K, d \in D : SetBody(t, k, d) /\ UNCHANGED ext
    \/ \E t \in Requests : SetUnlock(t) /\ UNCHANGED ext
    \/ SweepLock /\ UNCHANGED ext
    \/ SweepAcquire /\ UNCHANGED ext
    \/ SweepDrained /\ UNCHANGED ext
    \/ SweepBody /\ UNCHANGED ext
    \/ SweepUnlock /\ UNCHANGED ext
    \/ Tick /\ UNCHANGED ext

Next == NextOver(Keys, Data)

\* The steps a task takes once it has called Get, Set or the sweep and is not
\* waiting for the writer side of the lock.
Proceed(t) ==
    /\ \/ \E k \in Keys : GetBody(t, k)
       \/ GetRUnlock(t)
       \/ SetDrained(t)
       \/ \E k \in Keys, d \in Data : SetBody(t, k, d)
       \/ SetUnlock(t)
    /\ UNCHANGED ext

SweepProceed == (SweepLock \/ SweepDrained \/ SweepBody \/ SweepUnlock) /\ UNCHANGED ext

\* Goroutines are scheduled fairly; a sync.Mutex in starvation mode hands the
\* lock to a waiter, so a Lock that can succeed again and again does succeed.
Fairness ==
    /\ \A t \in Requests : WF_vars(Proceed(t)) /\ SF_vars(SetAcquire(t) /\ UNCHANGED ext)
    /\ WF_vars(SweepProceed)
    /\ SF_vars(SweepAcquire /\ UNCHANGED ext)

Spec == Init /\ [][Next]_vars

\* The same system under fair scheduling, its calls drawn from LiveKeys keys and
\* one payload: whether a call proceeds does not depend on its arguments.
LiveNext == NextOver(1..LiveKeys, {1})
LiveSpec == Init /\ [][LiveNext]_vars /\ Fairness


\* ---- what the claims speak of ----
\* A step in which task t runs the body of Get, of Set, and the sweep's body.
GetReturns(t) == pc[t] = "g_cs" /\ pc'[t] = "g_ret"
SetWrites(t) == pc[t] = "s_cs" /\ pc'[t] = "s_ret"
SetReturns(t) == pc[t] = "s_ret" /\ pc'[t] = "idle"
SweepRuns == pc[Sweeper] = "c_cs" /\ pc'[Sweeper] = "c_ret"

\* The keys some Set has written so far.
WrittenKeys == {k \in Keys : lastSet[k] # NoSet}

\* C1: at the observation point immediately following the return of any Set,
\* the store holds at most MAX_CACHE_SIZE entries.
C1_CapacityAfterSet ==
    [][\A t \in Requests : SetReturns(t) => Size(cache') <= MAX_CACHE_SIZE]_vars


\* C2: a Get(k) that immediately follows Set(k, p), with no time advance,
\* returns (p, true), whatever the store held before; a Get(k) run after the
\* clock has passed the last Set(k)'s time plus CACHE_DURATION returns found = false.
C2_TTLExpiry ==
    [][\A t \in Requests : GetReturns(t) =>
          LET k == arg'[t] IN
          /\ (lastMut = k /\ lastSet[k].at = now) => ret'[t] = Hit(lastSet[k].data)
          /\ (lastSet[k] # NoSet /\ now > lastSet[k].at + CACHE_DURATION)
                => ~ret'[t].found]_vars

\* A Get has hit right after a Set into a store that was at capacity, while
\* another Get has missed on an entry that is expired and still in the store.
C2_Witness ==
    \E t, u \in Requests :
        /\ pc[t] = "g_ret" /\ pc[u] = "g_ret"
        /\ lastMut = arg[t] /\ lastSet[arg[t]].at = now
        /\ ret[t] = Hit(lastSet[arg[t]].data)
        /\ Size(cache) > MAX_CACHE_SIZE
        /\ arg[u] \in DOMAIN cache
        /\ now > lastSet[arg[u]].at + CACHE_DURATION
        /\ ~ret[u].found

\* The case C3 speaks of: every key written once, at pairwise different times,
\* no sweep, nothing expired, and no Set in its body.
C3_Scenario ==
    /\ WrittenKeys = Keys
    /\ ~reSet
    /\ ~sweepRan
    /\ \A j, k \in Keys : j # k => lastSet[j].at # lastSet[k].at
    /\ \A k \in Keys : ~After(now, lastSet[k].at + CACHE_DURATION)

\* The keys written before at least MAX_CACHE_SIZE others.
C3_Oldest ==
    {k \in Keys : Cardinality({j \in Keys : lastSet[j].at > lastSet[k].at}) >= MAX_CACHE_SIZE}

\* C3: after MAX_CACHE_SIZE + d distinct keys were inserted at strictly
\* increasing times, the d entries with the earliest expiry are the ones removed
\* and the MAX_CACHE_SIZE most recently inserted entries are retrievable by Get.
C3_EvictionOrder ==
    C3_Scenario =>
        /\ DOMAIN cache = Keys \ C3_Oldest
        /\ \A k \in Keys \ C3_Oldest : GetResult(cache, now, k) = Hit(lastSet[k].data)

\* C4: a Set(k, p2) on a store that holds k makes a following Get(k) return
\* (p2, true), leaves the number of entries unchanged and removes no other entry.
C4_IdempotentOverwrite ==
    [][\A t \in Requests : (SetWrites(t) /\ lastMut' \in DOMAIN cache) =>
          LET k == lastMut' IN
          /\ GetResult(cache', now', k) = Hit(lastSet'[k].data)
          /\ Size(cache') = Size(cache)
          /\ DOMAIN cache \subseteq DOMAIN cache']_vars

\* C5: one run of the sweep deletes exactly the entries whose expiry is strictly
\* before the sweep's time; every other entry, one expiring exactly now included,
\* stays with the same payload and expiry.
C5_SweepOnlyExpired ==
    [][SweepRuns =>
          /\ DOMAIN cache' \subseteq DOMAIN cache
          /\ \A k \in DOMAIN cache :
                IF cache[k].Expiry < now
                THEN k \notin DOMAIN cache'
                ELSE k \in DOMAIN cache' /\ cache'[k] = cache[k]]_vars

\* A sweep has just removed an expired entry (it was never evicted: no Set has
\* run on a full store) and kept one that expires exactly now.
C5_Witness ==
    /\ pc[Sweeper] = "c_ret"
    /\ ~reSet
    /\ Cardinality(WrittenKeys) <= MAX_CACHE_SIZE
    /\ \E k \in WrittenKeys : k \notin DOMAIN cache /\ lastSet[k].at + CACHE_DURATION < now
    /\ \E k \in DOMAIN cache : cache[k].Expiry = now

\* The case C6 speaks of: at most MAX_CACHE_SIZE Sets so far, all to different
\* keys, starting from the empty store, and nothing expired.
C6_Scenario ==
    /\ ~reSet
    /\ Cardinality(WrittenKeys) <= MAX_CACHE_SIZE
    /\ \A k \in WrittenKeys : ~After(now, lastSet[k].at + CACHE_DURATION)

\* C6: after N <= MAX_CACHE_SIZE writers have Set N different keys on the empty
\* store, in any interleaving and with nothing expired, a Get of any of these
\* keys finds it, with the payload its writer stored.
C6_NoLostWrite ==
    [][\A t \in Requests : (GetReturns(t) /\ C6_Scenario /\ arg'[t] \in WrittenKeys)
          => ret'[t] = Hit(lastSet[arg'[t]].data)]_vars

\* MAX_CACHE_SIZE keys written, and every request task holds the payload of a
\* different one of them.
C6_Witness ==
    /\ C6_Scenario
    /\ Cardinality(WrittenKeys) = MAX_CACHE_SIZE
    /\ \A t \in Requests : pc[t] = "g_ret" /\ ret[t] = Hit(lastSet[arg[t]].data)
    /\ \A t, u \in Requests : t # u => arg[t] # arg[u]

\* C7: every entry's expiry is the time of the Set that created it plus
\* CACHE_DURATION, and the expiry of an entry that stays in the store changes
\* only in the body of a Set on its key.
C7_FixedTTL ==
    /\ [](\A k \in DOMAIN cache : cache[k].Expiry = lastSet[k].at + CACHE_DURATION)
    /\ [][\A k \in DOMAIN cache \cap DOMAIN cache' :
            cache'[k].Expiry # cache[k].Expiry
               => (\E t \in Requests : SetWrites(t)) /\ lastMut' = k]_vars

\* A Get has hit an entry written at an earlier time, after a sweep has run
\* and after a Set on a full store has evicted.
C7_Witness ==
    \E t \in Requests :
        /\ pc[t] = "g_ret"
        /\ ret[t].found
        /\ now > lastSet[arg[t]].at
        /\ sweepRan
        /\ \E k \in WrittenKeys : k \notin DOMAIN cache /\ lastSet[k].at + CACHE_DURATION >= now

\* Inside the critical section: between acquiring the lock and releasing it.
InWrite(t) == pc[t] \in {"s_cs", "s_ret", "c_cs", "c_ret"}
InRead(t) == pc[t] \in {"g_cs", "g_ret"}

\* C8: while a Set or a sweep is inside its critical section, no other Set,
\* sweep or Get is inside its own.
C8_MutualExclusion ==
    \A t, u \in Tasks : (t # u /\ InWrite(t)) => ~(InWrite(u) \/ InRead(u))

\* Several Gets are inside at once, and the sweep waits for them to leave.
C8_Witness ==
    /\ Cardinality({t \in Requests : InRead(t)}) >= 2
    /\ pc[Sweeper] = "c_drain"
    /\ \E t \in Requests : pc[t] = "g_ret" /\ ret[t].found

\* C9: a Get(k) that finds the key returns the payload of the last Set(k) that
\* held the lock before it, and the stored payload and expiry of every key are
\* those of the last Set on that key.
C9_LinearizedWrites ==
    /\ [](\A k \in DOMAIN cache :
            cache[k] = CacheEntry(lastSet[k].data, lastSet[k].at + CACHE_DURATION))
    /\ [][\A t \in Requests : (GetReturns(t) /\ ret'[t].found)
            => ret'[t].data = lastSet[arg'[t]].data]_vars

\* A key was written more than once, a Get has found a key, and a Set waits
\* for that Get to leave.
C9_Witness ==
    \E t, u \in Requests :
        /\ pc[t] = "g_ret"
        /\ ret[t].found
        /\ reSet
        /\ pc[u] = "s_drain"


\* Some task is inside a call; some task inside a call can take a step.
Busy == \E t \in Tasks : pc[t] # "idle"
CanStep ==
    \/ \E t \in Requests : ENABLED (Proceed(t) \/ (SetAcquire(t) /\ UNCHANGED ext))
    \/ ENABLED ((SweepDrained \/ SweepBody \/ SweepUnlock \/ SweepAcquire) /\ UNCHANGED ext)

\* C10: under fair scheduling the tasks never deadlock, and every Get, Set and
\* sweep that has started acquires the lock, finishes and releases it.
C10_NoIndefiniteBlocking ==
    /\ [](Busy => CanStep)
    /\ \A t \in Tasks : (pc[t] # "idle") ~> (pc[t] = "idle")

\* Every task is inside a call: one holds the lock and the other two wait for it.
C10_Witness ==
    /\ \A t \in Tasks : pc[t] # "idle"
    /\ \E t \in Requests : pc[t] = "s_lock"
    /\ \E t \in Tasks : pc[t] \in {"s_drain", "c_drain", "c_lock", "g_blocked"}

\* ---- the []byte of an entry is shared with its callers (lines 56, 67-70) ----
\* A payload value is a slice: Set stores the slice it is given (line 68) and Get
\* returns the stored slice (line 56), so the bytes are read through heap.
AliasKeys == 1

\* The bytes a Get(k) at time n hands to its caller.
GetContent(c, hp, n, k) ==
    LET r == GetResult(c, n, k)
    IN  IF r.found THEN hp[r.data] ELSE Nil

\* The slices callers hold: those passed to Set and those received from Get.
CallerBuffers ==
    {lastSet[k].data : k \in {x \in Keys : lastSet[x] # NoSet}}
        \cup {ret[t].data : t \in {x \in Requests : ret[x].found}}

\* A caller overwrites the bytes of a slice it holds.
CallerWrite(a, v) ==
    /\ a \in CallerBuffers
    /\ heap[a] # v
    /\ heap' = [heap EXCEPT ![a] = v]
    /\ UNCHANGED <<cache, mu, now, tickC, pc, arg, ret, hist, probe, h>>

AliasNext ==
    \/ NextOver(1..AliasKeys, Data)
    \/ \E a \in Data, v \in Data : CallerWrite(a, v)

AliasSpec == Init /\ [][AliasNext]_vars

\* C11: entry isolation. No write by a caller to a buffer it passed to Set or
\* received from Get changes the bytes a Get(k) returns, for any key k.
C11_EntryIsolation ==
    [][\A a \in Data, v \in Data :
          CallerWrite(a, v) =>
              \A k \in Keys :
                  GetContent(cache', heap', now', k) = GetContent(cache, heap, now, k)]_vars

\* ---- checkCacheSize taken alone (lines 74-106) ----
\* The expiry times Set can give an entry (line 69) and the entries it can store.
Expiries == CACHE_DURATION .. (MaxTime + CACHE_DURATION)
Entries == {CacheEntry(d, e) : d \in Data, e \in Expiries}

\* The stores checkCacheSize is called on: Set adds one key after each call.
Stores ==
    UNION {[S -> Entries] : S \in {T \in SUBSET Keys : Cardinality(T) <= MAX_CACHE_SIZE + 1}}

\* One call of checkCacheSize on store c, the map ranged over in the given order;
\* a behaviour holds one call.
RunCheck(c, order) ==
    /\ probe = NoProbe
    /\ probe' = [in |-> c,
                 order |-> order,
                 unsorted |-> IF Size(c) <= MAX_CACHE_SIZE THEN <<>>
                              ELSE CollectEntries(c, order),
                 sorted |-> IF Size(c) <= MAX_CACHE_SIZE THEN <<>>
                            ELSE SortEntries(CollectEntries(c, order)),
                 out |-> checkCacheSize(c, order)]
    /\ UNCHANGED <<cache, mu, now, tickC, pc, arg, ret, hist, heap, h>>

\* The sort of lines 91-97 on its own, on up to MaxSortLen collected entries.
MaxSortLen == 4
SortInputs ==
    UNION {{[i \in 1..n |-> [key |-> i, expiry |-> e[i]]] : e \in [1..n -> Expiries]} :
              n \in 0..MaxSortLen}

RunSort(s) ==
    /\ probe = NoProbe
    /\ probe' = [NoProbe EXCEPT !.unsorted = s, !.sorted = SortEntries(s)]
    /\ UNCHANGED <<cache, mu, now, tickC, pc, arg, ret, hist, heap, h>>

FnNext ==
    \/ \E c \in Stores : \E order \in RangeOrders(c) : RunCheck(c, order)
    \/ \E s \in SortInputs : RunSort(s)

FnSpec == Init /\ [][FnNext]_vars

Deleted == DOMAIN probe.in \ DOMAIN probe.out
Kept == DOMAIN probe.out

\* C12: the enforcement deletes nothing from a store of at most MAX_CACHE_SIZE
\* entries; from a larger one it deletes exactly Size - MAX_CACHE_SIZE entries and
\* changes none of the others, leaving exactly MAX_CACHE_SIZE.
C12_EnforcementStep ==
    /\ Size(probe.in) <= MAX_CACHE_SIZE => probe.out = probe.in
    /\ Size(probe.in) > MAX_CACHE_SIZE =>
          /\ Kept \subseteq DOMAIN probe.in
          /\ \A k \in Kept : probe.out[k] = probe.in[k]
          /\ Cardinality(Deleted) = Size(probe.in) - MAX_CACHE_SIZE
          /\ Size(probe.out) = MAX_CACHE_SIZE

C12_Witness ==
    /\ Size(probe.in) = MAX_CACHE_SIZE + 1
    /\ Cardinality(Deleted) = 1
    /\ Size(probe.out) = MAX_CACHE_SIZE

\* C13: the exchange sort yields all collected entries in ascending order of
\* expiry, ties included; every deleted entry expires no later than every kept
\* one, so at no time is a deleted entry live while a kept one is expired.
C13_SoonestFirst ==
    /\ Len(probe.sorted) = Len(probe.unsorted)
    /\ \A i \in 1..Len(probe.unsorted) :
          \E j \in 1..Len(probe.sorted) : probe.sorted[j] = probe.unsorted[i]
    /\ \A i, j \in 1..Len(probe.sorted) :
          i < j => probe.sorted[i].expiry <= probe.sorted[j].expiry
    /\ Size(probe.in) > MAX_CACHE_SIZE =>
        /\ Len(probe.sorted) = Size(probe.in)
        /\ \A k \in Deleted, x \in Kept : probe.in[k].Expiry <= probe.in[x].Expiry
        /\ \A n \in 0..MaxTime : \A k \in Deleted, x \in Kept :
              ~(~After(n, probe.in[k].Expiry) /\ After(n, probe.in[x].Expiry))

\* A run on entries ranged over out of order, with a tie between the deleted
\* entry and a kept one, and a kept entry already expired.
C13_Witness ==
    /\ Size(probe.in) > MAX_CACHE_SIZE
    /\ \E i, j \in 1..Len(probe.unsorted) :
          i < j /\ probe.unsorted[i].expiry > probe.unsorted[j].expiry
    /\ probe.sorted # probe.unsorted
    /\ \E k \in Deleted, x \in Kept : probe.in[k].Expiry = probe.in[x].Expiry
    /\ \E x \in Kept : After(MaxTime, probe.in[x].Expiry)

\* ---- Get and the store ----
\* A step of task t inside Get: taking the read lock, the body, the unlock.
GetSteps(t) ==
    \/ pc[t] = "idle" /\ pc'[t] \in {"g_cs", "g_blocked"}
    \/ pc[t] = "g_cs" /\ pc'[t] = "g_ret"
    \/ pc[t] = "g_ret" /\ pc'[t] = "idle"

\* Key k is in store c with an expiry before n.
ExpiredIn(c, n, k) == k \in DOMAIN c /\ After(n, c[k].Expiry)

\* C14: no step of Get changes the store; a Get that finds an expired entry
\* returns found = false and leaves the entry in place, counted in the size; an
\* expired entry is removed or changed only by the sweep or by a Set (its eviction
\* or its write of the same key).
C14_GetReadOnly ==
    [][/\ \A t \in Requests : GetSteps(t) => cache' = cache
       /\ \A t \in Requests :
             GetReturns(t) /\ ExpiredIn(cache, now, arg'[t]) =>
                 /\ ~ret'[t].found
                 /\ arg'[t] \in DOMAIN cache'
                 /\ Size(cache') = Size(cache)
       /\ \A k \in Keys :
             ExpiredIn(cache, now, k) /\ (k \notin DOMAIN cache' \/ cache'[k] # cache[k]) =>
                 \/ SweepRuns
                 \/ \E t \in Requests : SetWrites(t)]_vars

\* A Get has just missed on an expired entry that is still in a store holding
\* more than MAX_CACHE_SIZE entries.
C14_Witness ==
    \E t \in Requests :
        /\ pc[t] = "g_ret"
        /\ ~ret[t].found
        /\ ExpiredIn(cache, now, arg[t])
        /\ Size(cache) = MAX_CACHE_SIZE + 1

\* ---- handler (lines 135-208) ----
HandlerUris == 1
Methods == {"GET", "POST", "OPTIONS"}
\* The inbound requests: method, path and query, whether an Authorization header
\* is present, whether a body is sent.
Reqs == [method : Methods, uri : 1..HandlerUris, auth : BOOLEAN, body : BOOLEAN]
\* The status codes upstream answers with: 200 and one other.
Statuses == {200, 404}

\* Mutant of CacheKey: the method is part of the key.
CacheKeyWithMethod(r) == IF r.method = "POST" THEN NumKeys ELSE r.uri
\* cacheKey := r.URL.RequestURI() (lines 148-149)
CacheKey(r) == r.uri

Respond(kind, status, body) == [kind |-> kind, status |-> status, body |-> body]

\* A request arrives; the CORS headers are set; OPTIONS is answered at once
\* (lines 137-145).
HStart(t, r) ==
    /\ h[t].pc = "h_idle"
    /\ pc[t] = "idle"
    /\ h' = [h EXCEPT ![t] =
                IF r.method = "OPTIONS"
                THEN [NoRequest EXCEPT !.pc = "h_done", !.req = r,
                                       !.resp = Respond("options", 200, Nil)]
                ELSE [NoRequest EXCEPT !.pc = "h_get", !.req = r]]
    /\ UNCHANGED <<cache, mu, now, tickC, pc, arg, ret, hist, heap, probe>>

\* cacheManager.Get(cacheKey) (line 152): the call, the body, the return.
HGetLock(t) ==
    /\ h[t].pc = "h_get"
    /\ GetRLock(t)
    /\ h' = [h EXCEPT ![t].pc = "h_getting"]
    /\ UNCHANGED <<heap, probe>>

HGetBody(t) ==
    /\ h[t].pc = "h_getting"
    /\ GetBody(t, CacheKey(h[t].req))
    /\ h' = [h EXCEPT ![t].saw = GetResult(cache, now, h[t].req.uri)]
    /\ UNCHANGED <<heap, probe>>

\* Get returns: on a hit the cached bytes are written with status 200 and the
\* handler returns (lines 152-158).
HGetReturn(t) ==
    /\ h[t].pc = "h_getting"
    /\ GetRUnlock(t)
    /\ h' = [h EXCEPT ![t] =
                IF ret[t].found
                THEN [@ EXCEPT !.pc = "h_done", !.got = ret[t],
                               !.resp = Respond("hit", 200, ret[t].data)]
                ELSE [@ EXCEPT !.pc = "h_forward", !.got = ret[t]]]
    /\ UNCHANGED <<heap, probe>>

\* http.NewRequest fails: 500, upstream not called (lines 164-169).
HNewRequestErr(t) ==
    /\ h[t].pc = "h_forward"
    /\ h' = [h EXCEPT ![t].pc = "h_done", ![t].resp = Respond("err_new", 500, Nil)]
    /\ UNCHANGED <<cache, mu, now, tickC, pc, arg, ret, hist, heap, probe>>

\* client.Do fails: 502 (lines 180-185).
HDoErr(t) ==
    /\ h[t].pc = "h_forward"
    /\ h' = [h EXCEPT ![t].pc = "h_done", ![t].contacted = TRUE,
                      ![t].resp = Respond("err_do", 502, Nil)]
    /\ UNCHANGED <<cache, mu, now, tickC, pc, arg, ret, hist, heap, probe>>

\* io.ReadAll fails: 500 (lines 189-194).
HReadErr(t) ==
    /\ h[t].pc = "h_forward"
    /\ h' = [h EXCEPT ![t].pc = "h_done", ![t].contacted = TRUE,
                      ![t].resp = Respond("err_read", 500, Nil)]
    /\ UNCHANGED <<cache, mu, now, tickC, pc, arg, ret, hist, heap, probe>>

\* Mutant of HResponse: every upstream response is cached.
HResponseCacheAll(t, st, d) ==
    /\ h[t].pc = "h_forward"
    /\ h' = [h EXCEPT ![t].pc = "h_set", ![t].contacted = TRUE,
                      ![t].up = [status |-> st, body |-> d]]
    /\ UNCHANGED <<cache, mu, now, tickC, pc, arg, ret, hist, heap, probe>>

\* Upstream answers with status st and body d, read in full; with status 200 the
\* handler goes on to Set, otherwise it relays the answer (lines 176-207).
HResponse(t, st, d) ==
    /\ h[t].pc = "h_forward"
    /\ h' = [h EXCEPT ![t] =
                IF st = 200
                THEN [@ EXCEPT !.pc = "h_set", !.contacted = TRUE,
                               !.up = [status |-> st, body |-> d]]
                ELSE [@ EXCEPT !.pc = "h_done", !.contacted = TRUE,
                               !.up = [status |-> st, body |-> d],
                               !.resp = Respond("passed", st, d)]]
    /\ UNCHANGED <<cache, mu, now, tickC, pc, arg, ret, hist, heap, probe>>

\* cacheManager.Set(cacheKey, body) (line 198): the call, the body, the return.
HSetLock(t) ==
    /\ h[t].pc = "h_set"
    /\ SetLock(t)
    /\ h' = [h EXCEPT ![t].pc = "h_setting", ![t].didSet = TRUE]
    /\ UNCHANGED <<heap, probe>>

HSetBody(t) ==
    /\ h[t].pc = "h_setting"
    /\ SetBody(t, CacheKey(h[t].req), h[t].up.body)
    /\ UNCHANGED ext

\* Set has returned; the upstream status and body are written (lines 205-207).
HSetReturn(t) ==
    /\ h[t].pc = "h_setting"
    /\ SetUnlock(t)
    /\ h' = [h EXCEPT ![t].pc = "h_done",
                      ![t].resp = Respond("stored", h[t].up.status, h[t].up.body)]
    /\ UNCHANGED <<heap, probe>>

\* The handler returns; the task serves the next request.
HFinish(t) ==
    /\ h[t].pc = "h_done"
    /\ h' = [h EXCEPT ![t] = NoRequest]
    /\ UNCHANGED <<cache, mu, now, tickC, pc, arg, ret, hist, heap, probe>>

HandlerNext ==
    \/ \E t \in Requests, r \in Reqs : HStart(t, r)
    \/ \E t \in Requests : HGetLock(t)
    \/ \E t \in Requests : HGetBody(t)
    \/ \E t \in Requests : HGetReturn(t)
    \/ \E t \in Requests : HNewRequestErr(t)
    \/ \E t \in Requests : HDoErr(t)
    \/ \E t \in Requests : HReadErr(t)
    \/ \E t \in Requests, st \in Statuses, d \in Data : HResponse(t, st, d)
    \/ \E t \in Requests : HSetLock(t)
    \/ \E t \in Requests : SetAcquire(t) /\ UNCHANGED ext
    \/ \E t \in Requests : SetDrained(t) /\ UNCHANGED ext
    \/ \E t \in Requests : HSetBody(t)
    \/ \E t \in Requests : HSetReturn(t)
    \/ \E t \in Requests : HFinish(t)
    \/ SweepLock /\ UNCHANGED ext
    \/ SweepAcquire /\ UNCHANGED ext
    \/ SweepDrained /\ UNCHANGED ext
    \/ SweepBody /\ UNCHANGED ext
    \/ SweepUnlock /\ UNCHANGED ext
    \/ Tick /\ UNCHANGED ext

HandlerSpec == Init /\ [][HandlerNext]_vars

\* A step in which task t calls Set; a step in which its handler returns.
SetCalls(t) == pc[t] = "idle" /\ pc'[t] \in {"s_cs", "s_drain", "s_lock"}
HandlerReturns(t) == h[t].pc # "h_done" /\ h'[t].pc = "h_done"

\* C15: the handler calls Set only for a request that is not OPTIONS, missed the
\* cache and got status 200 from upstream, and then with the request's key and
\* the upstream body; the store changes only in the body of such a Set or in the
\* sweep; a request answered from the cache, an OPTIONS request, one answered with
\* another status and one that failed has made no Set call, and upstream was not
\* contacted for a hit or for OPTIONS.
C15_OnlySuccessCached ==
    [][/\ \A t \in Requests :
             SetCalls(t) =>
                 /\ h[t].req.method # "OPTIONS"
                 /\ ~h[t].got.found
                 /\ h[t].contacted
                 /\ h[t].up.status = 200
       /\ \A t \in Requests :
             SetWrites(t) =>
                 /\ lastMut' = CacheKey(h[t].req)
                 /\ lastSet'[lastMut'].data = h[t].up.body
       /\ cache' # cache => SweepRuns \/ \E t \in Requests : SetWrites(t)
       /\ \A t \in Requests :
             HandlerReturns(t) =>
                 /\ (\/ h'[t].req.method = "OPTIONS"
                     \/ h'[t].got.found
                     \/ h'[t].up.status # 200
                     \/ h'[t].resp.kind \in {"err_new", "err_do", "err_read"})
                        => ~h'[t].didSet
                 /\ (h'[t].req.method = "OPTIONS" \/ h'[t].got.found)
                        => ~h'[t].contacted]_vars

\* One request has stored a 200 answer; another has relayed a non-200 answer
\* without calling Set.
C15_Witness ==
    \E t1, t2 \in Requests :
        /\ h[t1].pc = "h_done" /\ h[t1].resp.kind = "stored" /\ h[t1].didSet
        /\ h[t2].pc = "h_done" /\ h[t2].resp.kind = "passed" /\ ~h[t2].didSet
        /\ h[t2].contacted

\* The handler of task t has answered a request other than OPTIONS whose URI was a
\* live key of the store when its Get ran.
AnsweredLive(t) ==
    /\ h[t].pc = "h_done"
    /\ h[t].req.method # "OPTIONS"
    /\ h[t].saw.found

\* C19: a request other than OPTIONS whose URI is live in the store is answered
\* with status 200 and the cached body without contacting upstream, so two such
\* requests for the same URI that found the same entry get the same answer,
\* whatever their method, Authorization header or body.
C19_KeyIsUriOnly ==
    /\ \A t \in Requests :
          AnsweredLive(t) =>
              /\ h[t].resp.status = 200
              /\ h[t].resp.body = h[t].saw.data
              /\ ~h[t].contacted
    /\ \A t1, t2 \in Requests :
          (/\ AnsweredLive(t1) /\ AnsweredLive(t2)
           /\ h[t1].req.uri = h[t2].req.uri
           /\ h[t1].saw = h[t2].saw)
            => /\ h[t1].resp = h[t2].resp
               /\ ~h[t1].contacted /\ ~h[t2].contacted

\* Two answered requests for one live URI that differ in method, Authorization
\* header and body.
C19_Witness ==
    \E t1, t2 \in Requests :
        /\ AnsweredLive(t1) /\ AnsweredLive(t2)
        /\ h[t1].req.uri = h[t2].req.uri
        /\ h[t1].saw = h[t2].saw
        /\ h[t1].req.method = "GET" /\ h[t2].req.method = "POST"
        /\ h[t1].req.auth # h[t2].req.auth
        /\ h[t1].req.body # h[t2].req.body

\* ---- the size of the store ----
\* Calls on CapKeys keys, more than MAX_CACHE_SIZE + 1, with one payload.
CapNext == NextOver(1..CapKeys, {1})
CapSpec == Init /\ [][CapNext]_vars

\* C17: in every reachable state the store holds at most MAX_CACHE_SIZE + 1
\* entries.
C17_SizeBound == Size(cache) <= MAX_CACHE_SIZE + 1

\* More than MAX_CACHE_SIZE + 1 distinct keys have been written, no sweep has
\* run, and the store holds MAX_CACHE_SIZE + 1 entries.
C17_Witness ==
    /\ Cardinality({k \in AllKeys : lastSet[k] # NoSet}) > MAX_CACHE_SIZE + 1
    /\ ~sweepRan
    /\ Size(cache) = MAX_CACHE_SIZE + 1

\* ---- misses ----
\* C18: every Get returns what the store and the clock of its step give, and a
\* key for which that is found = false stays so over every step other than the
\* body of a Set on that key: no tick, sweep, eviction or Set on another key
\* makes it retrievable again.
C18_MissPermanent ==
    [][/\ \A t \in Requests :
             GetReturns(t) => ret'[t] = GetResult(cache, now, arg'[t])
       /\ \A k \in Keys :
             (/\ ~GetResult(cache, now, k).found
              /\ ~(\E t \in Requests : SetWrites(t) /\ lastMut' = k))
                => ~GetResult(cache', now', k).found]_vars

\* A Get misses on a key that was written, has expired and was swept, after a
\* Set on another key has followed the sweep.
C18_Witness ==
    \E t \in Requests :
        /\ pc[t] = "g_ret"
        /\ ~ret[t].found
        /\ arg[t] \in WrittenKeys
        /\ After(now, lastSet[arg[t]].at + CACHE_DURATION)
        /\ arg[t] \notin DOMAIN cache
        /\ sweepRan
        /\ lastMut \notin {Nil, arg[t]}

\* ---- the sweep over time (lines 33-40, 109-129) ----
\* The clock runs on from MaxTime to StaleMaxTime, so that ticks of the ticker
\* follow the expiry of an entry.
StaleMaxTime == 4
TickOn ==
    /\ now >= MaxTime
    /\ now < StaleMaxTime
    /\ now' = now + 1
    /\ tickC' = IF (now + 1) % CLEANUP_INTERVAL = 0 THEN TRUE ELSE tickC
    /\ UNCHANGED <<cache, mu, pc, arg, ret, hist>>

\* The time of the last tick the ticker sends within StaleMaxTime.
LastTickTime == (StaleMaxTime \div CLEANUP_INTERVAL) * CLEANUP_INTERVAL

StaleNext ==
    \/ NextOver(1..LiveKeys, {1})
    \/ TickOn /\ UNCHANGED ext

\* Fair scheduling of the tasks, and time passes.
StaleSpec ==
    /\ Init
    /\ [][StaleNext]_vars
    /\ Fairness
    /\ WF_vars((Tick \/ TickOn) /\ UNCHANGED ext)

\* C16: under fair scheduling, an entry that is expired while a tick of the
\* ticker is still to come is eventually removed from the store or replaced by a
\* Set on its key.
C16_BoundedStaleness ==
    \A k \in 1..LiveKeys : \A e \in CACHE_DURATION..LastTickTime :
        (/\ ExpiredIn(cache, now, k)
         /\ cache[k].Expiry = e
         /\ now < LastTickTime)
          ~> (k \notin DOMAIN cache \/ cache[k].Expiry # e)

\* An entry is expired after a sweep has already run, the sweeper is idle with
\* no tick waiting, and a tick is still to come.
C16_Witness ==
    /\ \E k \in Keys : ExpiredIn(cache, now, k)
    /\ now < LastTickTime
    /\ sweepRan
    /\ pc[Sweeper] = "idle"
    /\ ~tickC

=============================================================================
